---- MODULE Spec2Model ----
(***************************************************************************)
(* IndianMarketDataLoader (src/src/multi_market_loader.py).                *)
(*                                                                         *)
(* A column name is a sequence of one-character strings, so that           *)
(* str.lower() is modelled character by character.  A DataFrame is a       *)
(* record [columns, index, values]: the column labels in order, the row    *)
(* labels (trading dates) in order, and one sequence of cells per row.     *)
(* The provider (yfinance) is the environment: it is called with a symbol  *)
(* and two dates and either raises or returns a DataFrame.                 *)
(***************************************************************************)
EXTENDS Naturals, Sequences, FiniteSets

\* ------------------------------------------------------------------ bounds
\* rows of a provider response
MaxRows == 2
\* calls made on one loader
MaxCalls == 2

\* ------------------------------------------------------- text and str.lower
UpperChars == <<"A","B","C","D","E","F","G","H","I","J","K","L","M",
                "N","O","P","Q","R","S","T","U","V","W","X","Y","Z">>
LowerChars == <<"a","b","c","d","e","f","g","h","i","j","k","l","m",
                "n","o","p","q","r","s","t","u","v","w","x","y","z">>

\* the small letter of each capital letter
ToLower == [c \in {UpperChars[k] : k \in 1..Len(UpperChars)} |->
              LowerChars[CHOOSE k \in 1..Len(UpperChars) : UpperChars[k] = c]]

\* the capital letter of each small letter
ToUpper == [c \in {LowerChars[k] : k \in 1..Len(LowerChars)} |->
              UpperChars[CHOOSE k \in 1..Len(LowerChars) : LowerChars[k] = c]]

\* col.lower(): every capital letter becomes its small letter, the rest stays
lower(col) ==
  [k \in 1..Len(col) |-> IF col[k] \in DOMAIN ToLower THEN ToLower[col[k]] ELSE col[k]]

\* str.upper(), used only to build provider responses
upper(col) ==
  [k \in 1..Len(col) |-> IF col[k] \in DOMAIN ToUpper THEN ToUpper[col[k]] ELSE col[k]]

\* ------------------------------------------------------- program constants
DefaultCode == "IRFC"

DefaultSymbol == "IRFC.NS"

\* the class attribute INDIAN_MARKET as the class body sets it
InitialMarket == [c \in {"IRFC"} |-> "IRFC.NS"]

required_cols == << <<"o","p","e","n">>, <<"h","i","g","h">>, <<"l","o","w">>,
                    <<"c","l","o","s","e">>, <<"v","o","l","u","m","e">> >>

\* the descriptor table get_market_info returns, with a wrong provider symbol
MarketInfoWrongSymbol ==
  [c \in {"IRFC"} |->
     [name |-> "Indian Railway Finance Corporation Limited",
      country |-> "India",
      symbol |-> "IRFC.BO",
      description |-> "IRFC - Indian Railway Finance Corporation - Indian Market Focus"]]

\* the literal get_market_info returns
MarketInfo ==
  [c \in {"IRFC"} |->
     [name |-> "Indian Railway Finance Corporation Limited",
      country |-> "India",
      symbol |-> "IRFC.NS",
      description |-> "IRFC - Indian Railway Finance Corporation - Indian Market Focus"]]

\* ------------------------------------------------------------- DataFrames
Range(s) == {s[k] : k \in 1..Len(s)}

\* DataFrame.empty: true when any axis has length 0
empty(df) == Len(df.index) = 0 \/ Len(df.columns) = 0

\* data.columns = [col.lower() for col in data.columns]
LowercaseColumns(df) ==
  [df EXCEPT !.columns = [j \in 1..Len(df.columns) |-> lower(df.columns[j])]]

\* a column check that is satisfied by any one required column
HasAnyRequired(df) == \E r \in 1..Len(required_cols) : required_cols[r] \in Range(df.columns)

\* all(col in data.columns for col in required_cols)
HasRequired(df) == \A r \in 1..Len(required_cols) : required_cols[r] \in Range(df.columns)

\* the positions, ascending, of the columns of df labelled col
Positions(df, col) ==
  SelectSeq([j \in 1..Len(df.columns) |-> j], LAMBDA j : df.columns[j] = col)

RECURSIVE Locate(_, _)
\* the positions data[cols] takes: for each label of cols in turn, every
\* column of df that carries it
Locate(df, cols) ==
  IF cols = <<>> THEN <<>>
  ELSE Positions(df, Head(cols)) \o Locate(df, Tail(cols))

\* the frame made of the columns of df at the positions pos, all rows kept
TakeColumns(df, pos) ==
  [columns |-> [k \in 1..Len(pos) |-> df.columns[pos[k]]],
   index   |-> df.index,
   values  |-> [i \in 1..Len(df.index) |->
                  [k \in 1..Len(pos) |-> df.values[i][pos[k]]]]]

\* a selection that loses the first row
GetItemDropFirstRow(df, cols) ==
  LET t == TakeColumns(df, Locate(df, cols))
  IN  [columns |-> t.columns, index |-> Tail(t.index), values |-> Tail(t.values)]

\* a selection that hands the rows back last first
GetItemReverseRows(df, cols) ==
  LET t == TakeColumns(df, Locate(df, cols))
      n == Len(t.index)
  IN  [columns |-> t.columns,
       index   |-> [i \in 1..n |-> t.index[n + 1 - i]],
       values  |-> [i \in 1..n |-> t.values[n + 1 - i]]]

\* data[cols] for a list of labels
GetItem(df, cols) == TakeColumns(df, Locate(df, cols))

\* ------------------------------------------------- the provider's answers
Open      == <<"O","p","e","n">>
High      == <<"H","i","g","h">>
Low       == <<"L","o","w">>
Close     == <<"C","l","o","s","e">>
Volume    == <<"V","o","l","u","m","e">>
Dividends == <<"D","i","v","i","d","e","n","d","s">>
AdjClose  == <<"A","d","j"," ","C","l","o","s","e">>

\* the column orders a provider answers in: yfinance's, and another one
ProviderOrders == { <<Open, High, Low, Close, Volume, Dividends>>,
                    <<Dividends, Close, Volume, Open, Low, High>> }

Casings == {"title", "lower", "upper"}

Cased(col, casing) ==
  CASE casing = "title" -> col
    [] casing = "lower" -> lower(col)
    [] casing = "upper" -> upper(col)

\* one more column after the others, or none
ExtraColumns == { <<>>, <<lower(Open)>>, <<Volume>>, <<AdjClose>> }

\* the subsequence of s at the positions of keep
Keep(s, keep) == SelectSeq(s, LAMBDA c : \E k \in keep : s[k] = c)

\* which columns of an order a response carries: all, all but one, one, none
KeepSets(o) ==
  { S \in SUBSET (1..Len(o)) : Cardinality(S) + 1 >= Len(o) \/ Cardinality(S) <= 1 }

ColumnsOf(o) ==
  { [j \in 1..Len(Keep(o, keep)) |-> Cased(Keep(o, keep)[j], casing)] \o extra :
      keep \in KeepSets(o), casing \in Casings, extra \in ExtraColumns }

ColumnLists == UNION { ColumnsOf(o) : o \in ProviderOrders }

\* trading days, as day numbers
Days == 1..2

\* row labels: any dates in any order, repeats included
IndexLists == UNION { [1..n -> Days] : n \in 0..MaxRows }

\* the cell the provider put in row i, column j
Cell(i, j) == <<i, j>>

Frame(cols, idx) ==
  [columns |-> cols,
   index   |-> idx,
   values  |-> [i \in 1..Len(idx) |-> [j \in 1..Len(cols) |-> Cell(i, j)]]]

ProviderFrames == { Frame(cols, idx) : cols \in ColumnLists, idx \in IndexLists }

\* what the call to the provider can raise
ProviderErrors == { [type |-> "ConnectionError", msg |-> "network unreachable"],
                    [type |-> "JSONDecodeError", msg |-> "malformed response"] }

\* market_code arguments: the supported code and two unsupported ones
Codes == {"IRFC", "RELIANCE", "irfc"}

\* (start_date, end_date) arguments: the defaults and the 30-day style range
DateRanges == { <<"2005-01-01", "2022-03-31">>, <<"2020-01-10", "2020-01-01">> }

\* ------------------------------------------------------------------ state
VARIABLES
  INDIAN_MARKET,  \* the class attribute: code -> provider symbol
  pc,             \* "idle", "calling", "returned", "raised", "done"
  op,             \* the public method the current call entered by
  arg_code,       \* market_code as the caller passed it
  market_code,    \* the local market_code (reassigned on substitution)
  symbol,         \* the local symbol
  dates,          \* <<start_date, end_date>>
  answer,         \* what the provider did in this call: a frame or a raise
  data,           \* the local data
  exc,            \* the exception in flight
  outcome,        \* what the call gave its caller
  events,         \* printed notices and provider calls of this call, in order
  calls           \* calls made so far

vars == <<INDIAN_MARKET, pc, op, arg_code, market_code, symbol, dates,
          answer, data, exc, outcome, events, calls>>

None == [kind |-> "none"]

NoDataError(code, sym) ==
  [type |-> "ValueError", msg |-> "No data found for", code |-> code, symbol |-> sym]

MissingColumnsError(code) ==
  [type |-> "ValueError", msg |-> "Missing required columns for", code |-> code]

KeyError(code) == [type |-> "KeyError", msg |-> code]

Init ==
  /\ INDIAN_MARKET = InitialMarket
  /\ pc = "idle"
  /\ op = "none"
  /\ arg_code = ""
  /\ market_code = ""
  /\ symbol = ""
  /\ dates = <<"", "">>
  /\ answer = None
  /\ data = None
  /\ exc = None
  /\ outcome = None
  /\ events = <<>>
  /\ calls = 0

CanCall == pc \in {"idle", "done"} /\ calls < MaxCalls

\* a substitution that keeps the code the caller asked for
ResolveKeep(code) == code

\* lines 36-38: an unsupported code becomes "IRFC"
Resolve(code) == IF code \notin DOMAIN INDIAN_MARKET THEN DefaultCode ELSE code

\* a substitution that also registers the unsupported code
MarketAfterResolveRegister(code) ==
  IF code \notin DOMAIN INDIAN_MARKET
  THEN [c \in DOMAIN INDIAN_MARKET \cup {code} |->
          IF c = code THEN DefaultSymbol ELSE INDIAN_MARKET[c]]
  ELSE INDIAN_MARKET

\* lines 36-40 only read the mapping
MarketAfterResolve(code) == INDIAN_MARKET

WarningNotice(code) == [ev |-> "warning", code |-> code]

ProgressNotice(sym, range) ==
  [ev |-> "progress", symbol |-> sym, start |-> range[1], end |-> range[2]]

IndianNotice(range) == [ev |-> "indian_progress", start |-> range[1], end |-> range[2]]

HistoryCall(sym, range) ==
  [ev |-> "history", symbol |-> sym, start |-> range[1], end |-> range[2]]

SuccessNotice(n) == [ev |-> "success", rows |-> n]

FailureNotice(e) == [ev |-> "failure", error |-> e]

\* lines 36-41 of download_market_data, entered with the notices already printed
Enter(method, code, range, printed) ==
  LET mc == Resolve(code)
      warned == IF code \notin DOMAIN INDIAN_MARKET
                THEN printed \o <<WarningNotice(code)>> ELSE printed
  IN  /\ op' = method
      /\ arg_code' = code
      /\ market_code' = mc
      /\ dates' = range
      /\ INDIAN_MARKET' = MarketAfterResolve(code)
      /\ answer' = None
      /\ data' = None
      /\ exc' = None
      /\ calls' = calls + 1
      /\ IF mc \in DOMAIN INDIAN_MARKET
         THEN /\ symbol' = INDIAN_MARKET[mc]
              /\ events' = warned \o <<ProgressNotice(INDIAN_MARKET[mc], range)>>
              /\ outcome' = None
              /\ pc' = "calling"
         ELSE \* self.INDIAN_MARKET[market_code] raises outside the try
              /\ symbol' = ""
              /\ events' = warned
              /\ outcome' = [kind |-> "error", error |-> KeyError(mc)]
              /\ pc' = "done"

download_market_data ==
  /\ CanCall
  /\ \E code \in Codes, range \in DateRanges :
       Enter("download_market_data", code, range, <<>>)

download_indian_market ==
  /\ CanCall
  /\ \E range \in DateRanges :
       Enter("download_indian_market", "IRFC", range, <<IndianNotice(range)>>)

get_market_info ==
  /\ CanCall
  /\ op' = "get_market_info"
  /\ outcome' = [kind |-> "info", info |-> MarketInfo]
  /\ events' = <<>>
  /\ pc' = "done"
  /\ calls' = calls + 1
  /\ arg_code' = ""
  /\ market_code' = ""
  /\ symbol' = ""
  /\ dates' = <<"", "">>
  /\ answer' = None
  /\ data' = None
  /\ exc' = None
  /\ UNCHANGED INDIAN_MARKET

\* lines 44-45: the provider answers with a table
history_returns ==
  /\ pc = "calling"
  /\ \E df \in ProviderFrames :
       /\ answer' = [kind |-> "frame", frame |-> df]
       /\ data' = df
  /\ events' = Append(events, HistoryCall(symbol, dates))
  /\ pc' = "returned"
  /\ UNCHANGED <<INDIAN_MARKET, op, arg_code, market_code, symbol, dates, exc,
                 outcome, calls>>

\* lines 44-45: the provider call raises
history_raises ==
  /\ pc = "calling"
  /\ \E e \in ProviderErrors :
       /\ answer' = [kind |-> "raise", error |-> e]
       /\ exc' = e
  /\ events' = Append(events, HistoryCall(symbol, dates))
  /\ pc' = "raised"
  /\ UNCHANGED <<INDIAN_MARKET, op, arg_code, market_code, symbol, dates,
                 data, outcome, calls>>

\* lines 47-59 with the two checks in the other order
validate_columns_first ==
  /\ pc = "returned"
  /\ IF ~HasRequired(LowercaseColumns(data))
     THEN /\ exc' = MissingColumnsError(market_code)
          /\ pc' = "raised"
          /\ data' = LowercaseColumns(data)
          /\ UNCHANGED <<outcome, events>>
     ELSE IF empty(data)
     THEN /\ exc' = NoDataError(market_code, symbol)
          /\ pc' = "raised"
          /\ data' = LowercaseColumns(data)
          /\ UNCHANGED <<outcome, events>>
     ELSE /\ data' = LowercaseColumns(data)
          /\ events' = Append(events, SuccessNotice(Len(data.index)))
          /\ outcome' = [kind |-> "table",
                         table |-> GetItem(LowercaseColumns(data), required_cols)]
          /\ pc' = "done"
          /\ UNCHANGED exc
  /\ UNCHANGED <<INDIAN_MARKET, op, arg_code, market_code, symbol, dates,
                 answer, calls>>

\* lines 47-59 without the success notice
validate_silent ==
  /\ pc = "returned"
  /\ IF empty(data)
     THEN /\ exc' = NoDataError(market_code, symbol)
          /\ pc' = "raised"
          /\ UNCHANGED <<data, outcome, events>>
     ELSE IF ~HasRequired(LowercaseColumns(data))
     THEN /\ exc' = MissingColumnsError(market_code)
          /\ pc' = "raised"
          /\ data' = LowercaseColumns(data)
          /\ UNCHANGED <<outcome, events>>
     ELSE /\ data' = LowercaseColumns(data)
          /\ outcome' = [kind |-> "table",
                         table |-> GetItem(LowercaseColumns(data), required_cols)]
          /\ pc' = "done"
          /\ UNCHANGED <<exc, events>>
  /\ UNCHANGED <<INDIAN_MARKET, op, arg_code, market_code, symbol, dates,
                 answer, calls>>

\* lines 47-59: the emptiness check, the renaming, the column check, the return
validate ==
  /\ pc = "returned"
  /\ IF empty(data)
     THEN /\ exc' = NoDataError(market_code, symbol)
          /\ pc' = "raised"
          /\ UNCHANGED <<data, outcome, events>>
     ELSE IF ~HasRequired(LowercaseColumns(data))
     THEN /\ exc' = MissingColumnsError(market_code)
          /\ pc' = "raised"
          /\ data' = LowercaseColumns(data)
          /\ UNCHANGED <<outcome, events>>
     ELSE /\ data' = LowercaseColumns(data)
          /\ events' = Append(events, SuccessNotice(Len(data.index)))
          /\ outcome' = [kind |-> "table",
                         table |-> GetItem(LowercaseColumns(data), required_cols)]
          /\ pc' = "done"
          /\ UNCHANGED exc
  /\ UNCHANGED <<INDIAN_MARKET, op, arg_code, market_code, symbol, dates,
                 answer, calls>>

\* an except clause that calls the provider again instead of raising
except_handler_retry ==
  /\ pc = "raised"
  /\ events' = Append(events, FailureNotice(exc))
  /\ exc' = None
  /\ pc' = "calling"
  /\ UNCHANGED <<INDIAN_MARKET, op, arg_code, market_code, symbol, dates,
                 answer, data, outcome, calls>>

\* lines 61-63: print the diagnostic, re-raise the same exception
except_handler ==
  /\ pc = "raised"
  /\ events' = Append(events, FailureNotice(exc))
  /\ outcome' = [kind |-> "error", error |-> exc]
  /\ pc' = "done"
  /\ UNCHANGED <<INDIAN_MARKET, op, arg_code, market_code, symbol, dates,
                 answer, data, exc, calls>>

Next ==
  \/ download_market_data
  \/ download_indian_market
  \/ get_market_info
  \/ history_returns
  \/ history_raises
  \/ validate
  \/ except_handler

Spec == Init /\ [][Next]_vars

\* ------------------------------------------------------------ the claims
Downloading == op \in {"download_market_data", "download_indian_market"}

Finished == pc = "done" /\ Downloading

Returned == Finished /\ outcome.kind = "table"

Failed == Finished /\ outcome.kind = "error"

GotFrame == answer.kind = "frame"

\* the provider's column names in small letters, as a set
LoweredNames(df) == { lower(df.columns[j]) : j \in 1..Len(df.columns) }

MissingSome(df) ==
  LET names == LoweredNames(df)
  IN  \E r \in 1..Len(required_cols) : required_cols[r] \notin names

Unsupported(code) == code \notin DOMAIN InitialMarket

StrictlyIncreasing(idx) == \A i, j \in 1..Len(idx) : i < j => idx[i] < idx[j]

HistoryCalls == Len(SelectSeq(events, LAMBDA e : e.ev = "history"))

\* what a call with market_code = "IRFC" gives its caller for the provider's answer a
IrfcOutcome(a) ==
  IF a.kind = "raise" THEN [kind |-> "error", error |-> a.error]
  ELSE IF Len(a.frame.index) = 0 \/ Len(a.frame.columns) = 0
  THEN [kind |-> "error", error |-> NoDataError("IRFC", "IRFC.NS")]
  ELSE IF MissingSome(a.frame)
  THEN [kind |-> "error", error |-> MissingColumnsError("IRFC")]
  ELSE LET lowered == LowercaseColumns(a.frame)
       IN  [kind |-> "table",
            table |-> TakeColumns(lowered, Locate(lowered, required_cols))]

\* C1: every returned table has exactly the columns open, high, low, close,
\* volume, once each, in that order, whatever the provider's columns are.
C1_ExactlyFiveColumns == Returned => outcome.table.columns = required_cols

\* C2: an unsupported market_code never fails the call by itself: the provider
\* is asked for IRFC.NS with the caller's dates, and the caller gets what a call
\* with "IRFC" gets for the same provider answer.
C2_UnsupportedCodeActsAsIrfc ==
  (Downloading /\ Unsupported(arg_code)) =>
     /\ pc \in {"returned", "raised", "done"} =>
          /\ answer.kind \in {"frame", "raise"}
          /\ \E k \in 1..Len(events) : events[k] = HistoryCall("IRFC.NS", dates)
     /\ pc = "done" =>
          /\ answer.kind \in {"frame", "raise"}
          /\ outcome = IrfcOutcome(answer)

C2_Witness ==
  /\ Finished
  /\ arg_code = "RELIANCE"
  /\ GotFrame
  /\ outcome.kind = "table"
  /\ outcome = IrfcOutcome(answer)

\* C3: a provider answer of zero rows ends in the "No data found" error and no
\* table, also when required columns are missing from it.
C3_ZeroRowsIsNoData ==
  (Finished /\ GotFrame /\ Len(answer.frame.index) = 0) =>
     /\ outcome.kind = "error"
     /\ outcome.error = NoDataError(market_code, symbol)

C3_Witness ==
  /\ Finished
  /\ GotFrame
  /\ Len(answer.frame.index) = 0
  /\ Len(answer.frame.columns) > 0
  /\ MissingSome(answer.frame)
  /\ outcome.kind = "error"
  /\ outcome.error.msg = "No data found for"

\* C4 as stated: with at least one row, a required name absent after lowercasing
\* ends in the "Missing required columns" error, and a response with all five
\* names never does.
C4_MissingColumnIsMissingError ==
  (Finished /\ GotFrame /\ Len(answer.frame.index) >= 1) =>
     IF MissingSome(answer.frame)
     THEN outcome.kind = "error" /\ outcome.error = MissingColumnsError(market_code)
     ELSE ~(outcome.kind = "error" /\ outcome.error.msg = "Missing required columns for")

\* C4 amended: with at least one row and at least one column, a required name
\* absent after lowercasing ends in the "Missing required columns" error; rows
\* with no column at all end in the "No data found" error; a response with all
\* five names in any casing never ends in the "Missing required columns" error.
C4_MissingColumnUnlessNoColumns ==
  (Finished /\ GotFrame /\ Len(answer.frame.index) >= 1) =>
     IF Len(answer.frame.columns) = 0
     THEN outcome.kind = "error" /\ outcome.error = NoDataError(market_code, symbol)
     ELSE IF MissingSome(answer.frame)
     THEN outcome.kind = "error" /\ outcome.error = MissingColumnsError(market_code)
     ELSE ~(outcome.kind = "error" /\ outcome.error.msg = "Missing required columns for")

C4_Witness ==
  /\ Finished
  /\ GotFrame
  /\ Len(answer.frame.index) >= 1
  /\ Len(answer.frame.columns) >= 5
  /\ MissingSome(answer.frame)
  /\ outcome.kind = "error"
  /\ outcome.error.msg = "Missing required columns for"

\* C5: get_market_info calls no provider and prints nothing; its keys are those
\* of INDIAN_MARKET, every descriptor field is non-empty, and each symbol is the
\* one INDIAN_MARKET gives the code.
C5_MarketInfoMatchesMapping ==
  (pc = "done" /\ op = "get_market_info") =>
     /\ events = <<>>
     /\ answer = None
     /\ outcome.kind = "info"
     /\ DOMAIN outcome.info = DOMAIN INDIAN_MARKET
     /\ \A c \in DOMAIN outcome.info :
          /\ outcome.info[c].symbol = INDIAN_MARKET[c]
          /\ outcome.info[c].name # ""
          /\ outcome.info[c].country # ""
          /\ outcome.info[c].symbol # ""
          /\ outcome.info[c].description # ""

C5_Witness ==
  /\ pc = "done"
  /\ op = "get_market_info"
  /\ outcome.kind = "info"
  /\ calls = 2

\* C6: a call asks the provider once and never again; when the provider raises,
\* the caller gets that very error and no table.
C6_OneProviderCallErrorPassedOn ==
  /\ HistoryCalls <= 1
  /\ (Downloading /\ pc \in {"returned", "raised", "done"}) => HistoryCalls = 1
  /\ (Finished /\ answer.kind = "raise") =>
        outcome = [kind |-> "error", error |-> answer.error]

C6_Witness ==
  /\ Finished
  /\ answer.kind = "raise"
  /\ answer.error.type = "ConnectionError"
  /\ outcome.kind = "error"
  /\ HistoryCalls = 1

\* C7: a returned table is never empty and has the provider's rows, all of them,
\* in the provider's order: only columns are dropped and renamed.
C7_RowsKept ==
  Returned =>
     /\ Len(outcome.table.index) >= 1
     /\ Len(outcome.table.columns) >= 1
     /\ outcome.table.index = answer.frame.index
     /\ Len(outcome.table.values) = Len(answer.frame.index)
     /\ \A i \in 1..Len(outcome.table.values) :
          /\ Len(outcome.table.values[i]) = Len(outcome.table.columns)
          /\ \A k \in 1..Len(outcome.table.values[i]) :
               outcome.table.values[i][k] \in Range(answer.frame.values[i])

C7_Witness ==
  /\ Returned
  /\ Len(outcome.table.index) = 2
  /\ upper(Dividends) \in Range(answer.frame.columns)
  /\ Len(outcome.table.columns) < Len(answer.frame.columns)

\* C8 as stated: every returned table has unique, increasing dates.
C8_AlwaysChronological == Returned => StrictlyIncreasing(outcome.table.index)

\* C8 amended: the dates of a returned table are the provider's dates as the
\* provider ordered them, so the table is chronological with unique dates exactly
\* when the provider's answer is; an answer whose dates are out of order or
\* repeat is returned like any other, not rejected.
C8_ChronologicalIffProviderIs ==
  /\ Returned =>
       (StrictlyIncreasing(outcome.table.index) <=> StrictlyIncreasing(answer.frame.index))
  /\ (Finished /\ GotFrame /\ Len(answer.frame.index) >= 1
        /\ Len(answer.frame.columns) >= 1 /\ ~MissingSome(answer.frame)) =>
       outcome.kind = "table"

C8_Witness ==
  /\ Returned
  /\ answer.frame.index = <<2, 1>>
  /\ outcome.table.index = <<2, 1>>

\* the notices a call prints before it asks the provider
NoticesBeforeCall ==
  (IF op = "download_indian_market" THEN <<IndianNotice(dates)>> ELSE <<>>)
  \o (IF Unsupported(arg_code) THEN <<WarningNotice(arg_code)>> ELSE <<>>)
  \o <<ProgressNotice("IRFC.NS", dates)>>

\* C9: a call prints the substitution warning exactly when the code is
\* unsupported, then the progress notice, then asks the provider, then ends in
\* exactly one of: the success notice with the row count and the return, or the
\* failure diagnostic and the raise.
C9_EventOrder ==
  Downloading =>
     /\ pc = "calling" => events = NoticesBeforeCall
     /\ pc \in {"returned", "raised"} =>
          events = NoticesBeforeCall \o <<HistoryCall("IRFC.NS", dates)>>
     /\ pc = "done" =>
          \/ /\ outcome.kind = "table"
             /\ events = NoticesBeforeCall \o <<HistoryCall("IRFC.NS", dates)>>
                           \o <<SuccessNotice(Len(outcome.table.index))>>
          \/ /\ outcome.kind = "error"
             /\ events = NoticesBeforeCall \o <<HistoryCall("IRFC.NS", dates)>>
                           \o <<FailureNotice(outcome.error)>>

C9_Witness ==
  /\ Returned
  /\ arg_code = "irfc"
  /\ Len(events) = 4
  /\ events[1].ev = "warning"
  /\ events[4] = SuccessNotice(2)

\* C10: no call changes INDIAN_MARKET, and what a call gives its caller depends
\* on its arguments and the provider's answer to it alone, whatever calls were
\* made before.
C10_StatelessCalls ==
  /\ INDIAN_MARKET = InitialMarket
  /\ Finished =>
       /\ answer.kind \in {"frame", "raise"}
       /\ outcome = IrfcOutcome(answer)
  /\ (pc = "done" /\ op = "get_market_info") =>
       outcome = [kind |-> "info", info |-> MarketInfo]

C10_Witness ==
  /\ Returned
  /\ calls = MaxCalls
  /\ arg_code = "RELIANCE"
  /\ INDIAN_MARKET = InitialMarket

====
